---- MODULE Spec2Model ----
(***************************************************************************)
(* A model of src/app.py: the Flask route home() and the retry loop        *)
(* call_gemini_with_backoff() around client.models.generate_content().     *)
(*                                                                         *)
(* Every variable except API_KEY and service is a function over the set    *)
(* of activations being handled (Reqs).  An activation is either a request *)
(* to the route (entry "home": home() runs and calls the retry loop with   *)
(* the default max_retries) or a direct call of call_gemini_with_backoff   *)
(* with an explicit max_retries (entry "direct").                          *)
(***************************************************************************)
EXTENDS Integers, Sequences, FiniteSets, TLC

VARIABLES
    API_KEY,      \* module global read from the environment (line 9)
    service,      \* which responses the remote service produces in this run
    entry,        \* per activation: "home" or "direct"
    pc,           \* per activation: position in home() / the caller
    client,       \* per activation: home's local `client` (line 57)
    max_retries,  \* per activation: the parameter of call_gemini_with_backoff
    attempt,      \* per frame: the loop variable `attempt` (line 16)
    fstate,       \* per activation: state of the retry loop
    calls,        \* per activation: generate_content calls issued (line 25)
    waits,        \* per activation: the time.sleep durations, in order (line 37)
    outcomes,     \* per activation: outcome of each completed call, in order
    response,     \* per activation: value returned by the retry loop (line 72)
    page,         \* per activation: what home() returned
    status        \* per activation: HTTP status of the reply (0: none yet)

vars == <<API_KEY, service, entry, pc, client, max_retries, attempt, fstate,
          calls, waits, outcomes, response, page, status>>

Reqs == DOMAIN pc

\* ------------------------------------------------------------------ bounds

\* Largest explicit max_retries of a direct call (home uses the default).
MaxRetriesArg == 4
\* Longest grounding_attributions list of a response.
MaxAttributions == 2
\* Number of activations running concurrently in ConcSpec.
NumConcurrent == 2

\* The default of the parameter max_retries (line 14).
DefaultMaxRetries == 5

\* ----------------------------------------------------------- Python values

\* Python values are records tagged with their type, so that truthiness and
\* formatting are computed as Python computes them.
None == [type |-> "NoneType"]
PyStr(s) == [type |-> "str", val |-> s]
PyList(q) == [type |-> "list", items |-> q]
Unset == [type |-> "unset"]

\* bool(v): None, "" and [] are falsy, every other object is truthy.
Truthy(v) ==
    CASE v.type = "NoneType" -> FALSE
      [] v.type = "str" -> v.val # ""
      [] v.type = "list" -> Len(v.items) > 0
      [] OTHER -> TRUE

\* f"{v}" for a str or None.
Format(v) == IF v.type = "NoneType" THEN "None" ELSE v.val

\* ------------------------------------------------------ the remote service

Texts == {None, PyStr(""), PyStr("Fact X")}
Uris == {None, PyStr(""), PyStr("https://a.example")}
Titles == {None, PyStr(""), PyStr("A"), PyStr("B")}

Web(u, t) == [type |-> "Web", uri |-> u, title |-> t]
Attribution(w) == [type |-> "Attribution", web |-> w]
Attributions ==
    {Attribution(None)} \cup {Attribution(Web(u, t)) : u \in Uris, t \in Titles}

SeqsUpTo(S, n) == UNION {[1..k -> S] : k \in 0..n}

AttributionLists ==
    {None} \cup {PyList(q) : q \in SeqsUpTo(Attributions, MaxAttributions)}
GroundingMetadata(al) == [type |-> "GroundingMetadata", grounding_attributions |-> al]
Candidate(gm) == [type |-> "Candidate", grounding_metadata |-> gm]
CandidateLists ==
    {None, PyList(<<>>)} \cup
    {PyList(<<Candidate(gm)>>) :
        gm \in {None} \cup {GroundingMetadata(al) : al \in AttributionLists}}
Response(t, c) == [type |-> "Response", text |-> t, candidates |-> c]
Responses == {Response(t, c) : t \in Texts, c \in CandidateLists}

\* A service that answers with an empty response, a grounded one or an
\* ungrounded one only.
FewResponses ==
    {Response(None, None),
     Response(PyStr("Fact X"), PyList(<<Candidate(None)>>)),
     Response(PyStr("Fact X"),
              PyList(<<Candidate(GroundingMetadata(PyList(
                  <<Attribution(Web(PyStr("https://a.example"), PyStr("A")))>>)))>>))}

\* What generate_content may return under each kind of service.
Produces(s) == IF s = "any" THEN Responses ELSE FewResponses

\* What a call may raise: network, authentication and configuration errors.
Exceptions == {"NetworkError", "AuthError", "ConfigError"}

Outcome(k, v) == [kind |-> k, value |-> v]

\* ---------------------------------------------------- decisions of the code

\* `except Exception` (lines 32, 58) catches every error a call raises.
CatchesOnlyNetwork(e) == e = "NetworkError"
Catches(e) == e \in Exceptions

\* `if not API_KEY` (line 44).
KeyIsNone(k) == k = None
KeyMissing(k) == ~Truthy(k)

\* range(max_retries) (line 16): attempt takes the values 0 .. max_retries-1.
NoAdvance(a) == a
NextAttempt(a) == a + 1
InRange(a, n) == a < n

\* `if attempt < max_retries - 1` (line 34).
RetryAllowedEarly(a, n) == a < n - 2
RetryAllowedLate(a, n) == a < n
RetryAllowed(a, n) == a < n - 1

\* sleep_time = 2 ** attempt (line 35).
LinearSleep(a) == 2 * a
SleepTime(a) == 2 ^ a

\* `return response` (line 31).
ReturnedOrNone(resp) == IF Truthy(resp.text) THEN resp ELSE None
Returned(resp) == resp

\* `attempt` is a local of the invocation's own frame (line 16).
SharedFrame(r) == 1
Frame(r) == r

\* ----------------------------------------------------------------- pages

Page(k, t, s) == [kind |-> k, text |-> t, sources |-> s]
NoPage == Page("none", "", <<>>)
MissingKeyPage == Page("MissingKey", "API Key Missing", <<>>)
ClientErrorPage(e) == Page("ClientInitError", e, <<>>)
CallFailedPage == Page("CallFailed", "API Call Failed", <<>>)
UnhandledPage == Page("Unhandled", "", <<>>)

\* The condition of the comprehension (line 101).
KeepsWithoutTitle(attr) == Truthy(attr.web) /\ Truthy(attr.web.uri)
Keeps(attr) == Truthy(attr.web) /\ Truthy(attr.web.uri) /\ Truthy(attr.web.title)

RECURSIVE Comprehension(_)
Comprehension(q) ==
    IF q = <<>> THEN <<>>
    ELSE LET rest == Comprehension(Tail(q)) IN
         IF Keeps(Head(q))
         THEN <<[uri |-> Head(q).web.uri, title |-> Head(q).web.title]>> \o rest
         ELSE rest

\* sources (lines 92-102).
Sources(resp) ==
    IF Truthy(resp.candidates) /\ Truthy(resp.candidates.items[1].grounding_metadata)
    THEN LET gm == resp.candidates.items[1].grounding_metadata IN
         IF Truthy(gm.grounding_attributions)
         THEN Comprehension(gm.grounding_attributions.items)
         ELSE <<>>
    ELSE <<>>

\* The links of html_sources (lines 105-116).
Links(srcs) == [i \in 1..Len(srcs) |->
                   [href |-> Format(srcs[i].uri), label |-> Format(srcs[i].title)]]

\* html_template (lines 91, 119-149).
AnswerPage(resp) == Page("Answer", Format(resp.text), Links(Sources(resp)))

\* ------------------------------------------------------------------- Init

\* The state after import, with the activations R about to run, each entered
\* in one of the ways E, against a service of kind S.
InitWith(R, S, E) ==
    /\ API_KEY \in {PyStr(""), PyStr("key")}
    /\ service = S
    /\ entry \in [R -> E]
    /\ pc = [r \in R |-> IF entry[r] = "home" THEN "home" ELSE "in_call"]
    /\ client = [r \in R |-> "none"]
    /\ max_retries \in {f \in [R -> 0..(IF MaxRetriesArg > DefaultMaxRetries
                                        THEN MaxRetriesArg ELSE DefaultMaxRetries)] :
                          \A r \in R : IF entry[r] = "home"
                                       THEN f[r] = DefaultMaxRetries
                                       ELSE f[r] <= MaxRetriesArg}
    /\ attempt = [r \in R |-> 0]
    /\ fstate = [r \in R |-> IF entry[r] = "home" THEN "NotCalled" ELSE "Idle"]
    /\ calls = [r \in R |-> 0]
    /\ waits = [r \in R |-> <<>>]
    /\ outcomes = [r \in R |-> <<>>]
    /\ response = [r \in R |-> Unset]
    /\ page = [r \in R |-> NoPage]
    /\ status = [r \in R |-> 0]

Init == InitWith({1}, "any", {"home", "direct"})

FewInit == InitWith({1}, "few", {"home", "direct"})

\* Concurrent requests to the route.
ConcInit == InitWith(1..NumConcurrent, "few", {"home"})

\* ---------------------------------------------------------------- home()

\* home returns the page p (a returned string is a 200 reply).
Reply(r, p) ==
    /\ page' = [page EXCEPT ![r] = p]
    /\ status' = [status EXCEPT ![r] = 200]
    /\ pc' = [pc EXCEPT ![r] = "done"]

\* An exception leaves home: Flask answers 500.
Escapes(r) ==
    /\ page' = [page EXCEPT ![r] = UnhandledPage]
    /\ status' = [status EXCEPT ![r] = 500]
    /\ pc' = [pc EXCEPT ![r] = "done"]

\* Lines 44-53.
HomeCheckKey(r) ==
    /\ pc[r] = "home"
    /\ IF KeyMissing(API_KEY)
       THEN Reply(r, MissingKeyPage)
       ELSE /\ pc' = [pc EXCEPT ![r] = "client"]
            /\ UNCHANGED <<page, status>>
    /\ UNCHANGED <<API_KEY, service, entry, client, max_retries, attempt, fstate,
                   calls, waits, outcomes, response>>

\* Lines 55-59: genai.Client(api_key=API_KEY) returns a handle or raises.
HomeMakeClient(r) ==
    /\ pc[r] = "client"
    /\ \E o \in {"ok"} \cup Exceptions :
         IF o = "ok"
         THEN /\ client' = [client EXCEPT ![r] = "handle"]
              /\ pc' = [pc EXCEPT ![r] = "call"]
              /\ UNCHANGED <<page, status>>
         ELSE /\ IF Catches(o) THEN Reply(r, ClientErrorPage(o)) ELSE Escapes(r)
              /\ UNCHANGED client
    /\ UNCHANGED <<API_KEY, service, entry, max_retries, attempt, fstate,
                   calls, waits, outcomes, response>>

\* Lines 61-77: home calls call_gemini_with_backoff with the default max_retries.
HomeCall(r) ==
    /\ pc[r] = "call"
    /\ pc' = [pc EXCEPT ![r] = "in_call"]
    /\ fstate' = [fstate EXCEPT ![r] = "Idle"]
    /\ UNCHANGED <<API_KEY, service, entry, client, max_retries, attempt,
                   calls, waits, outcomes, response, page, status>>

\* Lines 79-149: the failure page for None, the answer page otherwise.
HomeRender(r) ==
    /\ pc[r] = "after_call"
    /\ IF response[r] = None
       THEN Reply(r, CallFailedPage)
       ELSE Reply(r, AnswerPage(response[r]))
    /\ UNCHANGED <<API_KEY, service, entry, client, max_retries, attempt, fstate,
                   calls, waits, outcomes, response>>

\* ---------------------------------------------- call_gemini_with_backoff()

\* The function returns v to its caller, ending in state s.
Return(r, v, s) ==
    /\ response' = [response EXCEPT ![r] = v]
    /\ fstate' = [fstate EXCEPT ![r] = s]
    /\ pc' = [pc EXCEPT ![r] = IF entry[r] = "home" THEN "after_call" ELSE "done"]
    /\ UNCHANGED <<page, status>>

\* The loop head (line 16) with the next value a of attempt: the body issues
\* the call (line 25), or the range is exhausted and line 40 returns None.
Iterate(r, a) ==
    IF InRange(a, max_retries[r])
    THEN /\ attempt' = [attempt EXCEPT ![Frame(r)] = a]
         /\ calls' = [calls EXCEPT ![r] = @ + 1]
         /\ fstate' = [fstate EXCEPT ![r] = "Attempting"]
         /\ UNCHANGED <<response, pc, page, status>>
    ELSE /\ Return(r, None, "ExhaustedFailed")
         /\ UNCHANGED <<attempt, calls>>

\* Lines 16-25: the first iteration.
Enter(r) ==
    /\ pc[r] = "in_call"
    /\ fstate[r] = "Idle"
    /\ Iterate(r, 0)
    /\ UNCHANGED <<API_KEY, service, entry, client, max_retries, waits, outcomes>>

\* Lines 25-31: generate_content returns resp, which is returned at once.
CallReturns(r) ==
    /\ fstate[r] = "Attempting"
    /\ \E resp \in Produces(service) :
         /\ outcomes' = [outcomes EXCEPT ![r] = Append(@, Outcome("return", resp))]
         /\ Return(r, Returned(resp), "Succeeded")
    /\ UNCHANGED <<API_KEY, service, entry, client, max_retries, attempt, calls, waits>>

\* Lines 32-39: generate_content raises e.
CallRaises(r) ==
    /\ fstate[r] = "Attempting"
    /\ \E e \in Exceptions :
         /\ outcomes' = [outcomes EXCEPT ![r] = Append(@, Outcome("raise", None))]
         /\ IF ~Catches(e)
            THEN /\ fstate' = [fstate EXCEPT ![r] = "Propagated"]
                 /\ IF entry[r] = "home"
                    THEN Escapes(r)
                    ELSE /\ pc' = [pc EXCEPT ![r] = "done"]
                         /\ UNCHANGED <<page, status>>
                 /\ UNCHANGED <<waits, response>>
            ELSE IF RetryAllowed(attempt[Frame(r)], max_retries[r])
            THEN /\ waits' = [waits EXCEPT ![r] = Append(@, SleepTime(attempt[Frame(r)]))]
                 /\ fstate' = [fstate EXCEPT ![r] = "WaitingBackoff"]
                 /\ UNCHANGED <<response, pc, page, status>>
            ELSE /\ Return(r, None, "ExhaustedFailed")
                 /\ UNCHANGED waits
    /\ UNCHANGED <<API_KEY, service, entry, client, max_retries, attempt, calls>>

\* Line 37 ends and the loop takes its next iteration (line 16).
SleepDone(r) ==
    /\ fstate[r] = "WaitingBackoff"
    /\ Iterate(r, NextAttempt(attempt[Frame(r)]))
    /\ UNCHANGED <<API_KEY, service, entry, client, max_retries, waits, outcomes>>

\* ------------------------------------------------------------------- Next

Next ==
    \/ \E r \in Reqs : HomeCheckKey(r)
    \/ \E r \in Reqs : HomeMakeClient(r)
    \/ \E r \in Reqs : HomeCall(r)
    \/ \E r \in Reqs : HomeRender(r)
    \/ \E r \in Reqs : Enter(r)
    \/ \E r \in Reqs : CallReturns(r)
    \/ \E r \in Reqs : CallRaises(r)
    \/ \E r \in Reqs : SleepDone(r)

\* One activation, every response of the service.
Spec == Init /\ [][Next]_vars

\* One activation against the service of few responses, where a running
\* activation keeps running: each remote call and each sleep completes.
FairSpec == FewInit /\ [][Next]_vars /\ WF_vars(Next)

\* NumConcurrent requests handled concurrently, interleaved step by step.
ConcSpec == ConcInit /\ [][Next]_vars

\* ---------------------------------------------------------------- claims

AllRaised(q) == \A i \in 1..Len(q) : q[i].kind = "raise"
Terminal(r) == fstate[r] \in {"Succeeded", "ExhaustedFailed"}

\* C1: with max_retries = n >= 1 and every call raising, the waits are
\* 1, 2, 4, ... (2^i after the failed attempt of index i), none follows the
\* n-th failure, and after n failures exactly n calls were made and None is
\* returned; the loop does not give up before the n-th failure.
C1_AllFail ==
    \A r \in Reqs :
      LET n == max_retries[r]
          k == Len(outcomes[r])
      IN  (n >= 1 /\ AllRaised(outcomes[r])) =>
            /\ waits[r] = [i \in 1..Len(waits[r]) |-> 2 ^ (i - 1)]
            /\ Len(waits[r]) = (IF k = n THEN n - 1 ELSE k)
            /\ k <= n
            /\ k = n => /\ fstate[r] = "ExhaustedFailed"
                        /\ calls[r] = n
                        /\ response[r] = None
            /\ fstate[r] = "ExhaustedFailed" => k = n

C1_Witness ==
    \E r \in Reqs :
      /\ max_retries[r] = DefaultMaxRetries
      /\ fstate[r] = "ExhaustedFailed"
      /\ waits[r] = <<1, 2, 4, 8>>

\* C2: when the k-th call is the first to return, exactly k calls are made,
\* k-1 waits happened, nothing is attempted afterwards, and the invocation
\* returns that very response, whatever its text.
C2_FirstSuccess ==
    \A r \in Reqs :
      \A k \in 1..Len(outcomes[r]) :
        outcomes[r][k].kind = "return" =>
          /\ k = Len(outcomes[r])
          /\ \A j \in 1..(k - 1) : outcomes[r][j].kind = "raise"
          /\ k <= max_retries[r]
          /\ calls[r] = k
          /\ Len(waits[r]) = k - 1
          /\ fstate[r] = "Succeeded"
          /\ response[r] = outcomes[r][k].value

C2_Witness ==
    \E r \in Reqs :
      /\ pc[r] = "done"
      /\ Len(outcomes[r]) = 3
      /\ outcomes[r][3].kind = "return"
      /\ ~Truthy(outcomes[r][3].value.text)
      /\ response[r] = outcomes[r][3].value

\* C3: with an empty API_KEY a request returns the missing-credential page
\* and nothing else happens: no client, no invocation of the retry loop, no
\* call, no attempt counter incremented, no wait.
C3_MissingKey ==
    \A r \in Reqs :
      (entry[r] = "home" /\ API_KEY = PyStr("")) =>
        /\ pc[r] \in {"home", "done"}
        /\ client[r] = "none"
        /\ fstate[r] = "NotCalled"
        /\ calls[r] = 0
        /\ attempt[r] = 0
        /\ waits[r] = <<>>
        /\ outcomes[r] = <<>>
        /\ pc[r] = "done" => (page[r] = MissingKeyPage /\ status[r] = 200)

C3_Witness ==
    \E r \in Reqs :
      /\ API_KEY = PyStr("")
      /\ entry[r] = "home"
      /\ pc[r] = "done"
      /\ page[r].kind = "MissingKey"

\* The attributions of a response: those of its first candidate's grounding
\* metadata, none when any of the three is absent.
AttributionsOf(resp) ==
    IF resp.candidates \in {None, PyList(<<>>)} THEN <<>>
    ELSE LET gm == resp.candidates.items[1].grounding_metadata IN
         IF gm = None THEN <<>>
         ELSE IF gm.grounding_attributions = None THEN <<>>
         ELSE gm.grounding_attributions.items

\* A field is present when it is neither None nor the empty string.
Present(v) == v # None /\ v # PyStr("")
HasBoth(a) == a.web # None /\ Present(a.web.uri) /\ Present(a.web.title)

\* C4: the citation list of an answer page holds exactly the attributions
\* with a web record, a URI and a title, in the order of the response; the
\* others are dropped and the page is still returned.
C4_Citations ==
    \A r \in Reqs :
      page[r].kind = "Answer" =>
        LET attrs == AttributionsOf(response[r])
            kept == {i \in 1..Len(attrs) : HasBoth(attrs[i])}
            Rank(i) == Cardinality({j \in kept : j <= i})
        IN  /\ status[r] = 200
            /\ Len(page[r].sources) = Cardinality(kept)
            /\ \A i \in kept :
                 page[r].sources[Rank(i)] =
                   [href |-> attrs[i].web.uri.val, label |-> attrs[i].web.title.val]

C4_Witness ==
    \E r \in Reqs :
      /\ page[r].kind = "Answer"
      /\ LET attrs == AttributionsOf(response[r]) IN
           /\ Len(attrs) = 2
           /\ attrs[1].web # None
           /\ attrs[1].web.title = None
           /\ HasBoth(attrs[2])
           /\ Len(page[r].sources) = 1

\* C5: an answer page is only built from a response whose text is non-empty.
C5_SuccessHasText ==
    \A r \in Reqs :
      page[r].kind = "Answer" => Truthy(response[r].text)

\* C6 as stated: a finished request has made one generate_content call.
C6_OneCall ==
    \A r \in Reqs :
      (entry[r] = "home" /\ pc[r] = "done") => calls[r] = 1

\* C6 as amended: a request makes at most DefaultMaxRetries calls: none when
\* the credential is missing or the client cannot be built, one per raised
\* call plus the one that returns for an answer page, and DefaultMaxRetries,
\* all raised, for the failure page.
C6_CallsPerRequest ==
    \A r \in Reqs :
      entry[r] = "home" =>
        /\ calls[r] <= DefaultMaxRetries
        /\ pc[r] = "done" =>
             /\ page[r].kind \in {"MissingKey", "ClientInitError"} <=> calls[r] = 0
             /\ page[r].kind = "CallFailed" =>
                  (calls[r] = DefaultMaxRetries /\ AllRaised(outcomes[r]))
             /\ page[r].kind = "Answer" =>
                  /\ calls[r] = Len(outcomes[r])
                  /\ AllRaised(SubSeq(outcomes[r], 1, calls[r] - 1))
                  /\ outcomes[r][calls[r]].kind = "return"

C6_Witness ==
    \E r \in Reqs :
      /\ entry[r] = "home"
      /\ pc[r] = "done"
      /\ page[r].kind = "Answer"
      /\ calls[r] = 3

\* C7: a request in which the credential is missing, the client constructor
\* raises or calls raise ends in a returned page with status 200; nothing
\* propagates out of home or out of the retry loop.
C7_ErrorsReturnPages ==
    \A r \in Reqs :
      /\ fstate[r] # "Propagated"
      /\ entry[r] = "home" =>
           /\ status[r] \in {0, 200}
           /\ page[r].kind # "Unhandled"
           /\ pc[r] = "done" =>
                /\ status[r] = 200
                /\ KeyMissing(API_KEY) => page[r].kind = "MissingKey"
                /\ (~KeyMissing(API_KEY) /\ client[r] = "none") =>
                     page[r].kind = "ClientInitError"
                /\ (client[r] = "handle" /\ AllRaised(outcomes[r])) =>
                     page[r].kind = "CallFailed"
                /\ (client[r] = "handle" /\ ~AllRaised(outcomes[r])) =>
                     page[r].kind = "Answer"

C7_Witness ==
    \E r \in Reqs :
      /\ entry[r] = "home"
      /\ pc[r] = "done"
      /\ status[r] = 200
      /\ page[r].kind = "CallFailed"
      /\ Len(outcomes[r]) = DefaultMaxRetries

Allowed ==
    {<<"Idle", "Attempting">>, <<"Attempting", "Succeeded">>,
     <<"Attempting", "WaitingBackoff">>, <<"WaitingBackoff", "Attempting">>,
     <<"Attempting", "ExhaustedFailed">>}

C9_Terminates ==
    /\ [](\A r \in Reqs : calls[r] <= max_retries[r])
    /\ (fstate[1] = "Idle") ~> Terminal(1)

C9_Witness ==
    /\ entry[1] = "direct"
    /\ max_retries[1] = 2
    /\ fstate[1] = "ExhaustedFailed"
    /\ calls[1] = 2

\* What an invocation running alone does with max_retries = n on the call
\* outcomes outs, from attempt a with the waits w made so far.
RECURSIVE SoloRun(_, _, _, _)
SoloRun(n, outs, a, w) ==
    IF a >= n
    THEN [fstate |-> "ExhaustedFailed", calls |-> a, waits |-> w, response |-> None]
    ELSE IF outs = <<>>
    THEN [fstate |-> "Attempting", calls |-> a + 1, waits |-> w, response |-> Unset]
    ELSE IF Head(outs).kind = "return"
    THEN [fstate |-> "Succeeded", calls |-> a + 1, waits |-> w,
          response |-> Head(outs).value]
    ELSE IF a < n - 1
    THEN SoloRun(n, Tail(outs), a + 1, Append(w, 2 ^ a))
    ELSE [fstate |-> "ExhaustedFailed", calls |-> a + 1, waits |-> w, response |-> None]

AsIfAlone(r) ==
    LET s == SoloRun(max_retries[r], outcomes[r], 0, <<>>) IN
    fstate[r] \notin {"NotCalled", "Idle"} =>
      /\ waits[r] = s.waits
      /\ response[r] = s.response
      /\ IF fstate[r] = "WaitingBackoff"
         THEN s.fstate = "Attempting" /\ calls[r] = s.calls - 1
         ELSE fstate[r] = s.fstate /\ calls[r] = s.calls

\* A step of activation r leaves every other activation's state, and the
\* globals, as they were.
OnlyTouches(r) ==
    /\ API_KEY' = API_KEY
    /\ \A q \in Reqs \ {r} :
         /\ pc'[q] = pc[q] /\ client'[q] = client[q] /\ attempt'[q] = attempt[q]
         /\ fstate'[q] = fstate[q] /\ calls'[q] = calls[q] /\ waits'[q] = waits[q]
         /\ outcomes'[q] = outcomes[q] /\ response'[q] = response[q]
         /\ page'[q] = page[q] /\ status'[q] = status[q]
         /\ max_retries'[q] = max_retries[q]

\* C10: under every interleaving each invocation's calls, waits and result
\* are those of a solitary run on its own outcomes, and a step of one
\* invocation changes no state of another.
C10_Independent ==
    /\ [](\A r \in Reqs : AsIfAlone(r))
    /\ [][\E r \in Reqs : OnlyTouches(r)]_vars

C10_Witness ==
    /\ fstate[1] = "WaitingBackoff"
    /\ attempt[1] = 2
    /\ fstate[2] = "Attempting"
    /\ attempt[2] = 0
    /\ waits[1] = <<1, 2, 4>>

====
